---- MODULE Spec2Model ----
(***************************************************************************)
(* Model of three pieces of OpenSCAD:                                      *)
(*   - the corefinement drivers corefineAndComputeUnion / Intersection /   *)
(*     Difference (src/src/cgalutils-corefine.cc, lines 54-109),           *)
(*   - ExactLazyNumbersVisitor in both of its event shapes                 *)
(*     (src/src/cgalutils-corefine.cc, lines 13-50),                       *)
(*   - RenderColorScheme / ColorMap (src/src/glview/ColorMap.cc).          *)
(* Each piece has its own specification over the shared variable list; the *)
(* variables of the other pieces stay at their initial values.             *)
(***************************************************************************)
EXTENDS Integers, Sequences, FiniteSets, TLC

VARIABLES
  \* ---- process-wide feature configuration --------------------------------
  featRemesh,      \* Feature::ExperimentalFastCsgRemesh
  featExact,       \* Feature::ExperimentalFastCsgExactCorefinementCallback
  \* ---- one driver call ---------------------------------------------------
  pc,              \* position of the driver call
  op,              \* which of the three drivers was called
  remesh,          \* local `remesh` (line 57)
  exactCallback,   \* local `exactCallback` (line 58)
  observer,        \* visitor type attached to the engine call
  forceExact,      \* 4th constructor argument of CorefinementVisitor
  entry,           \* PMP entry point that was called
  result,          \* value returned by the engine
  ret,             \* value returned by the driver
  regions,         \* split regions the CorefinementVisitor recorded
  remeshFailed,    \* the remesh pass failed for some recorded region
  outRemeshed,     \* `out` was handed to remeshSplitFaces
  \* history of the driver call
  engineCalls, remeshCalls, readsRemesh, readsExact, changedAfterRead,
  \* ---- one engine run observed by ExactLazyNumbersVisitor -----------------
  strict,          \* the engine keeps the begin / created / end protocol
  epc,             \* position of the engine: "run", "split" or "returned"
  faceVerts,       \* mesh: face -> its vertices, <<>> for a face not there
  pointA,          \* mesh: vertex -> point, build with new_vertex_added
  pointB,          \* mesh: vertex -> point, build with the three callbacks
  newVerts,        \* vertices the engine introduced while splitting
  split_face,      \* ExactLazyNumbersVisitor::split_face
  created_faces,   \* ExactLazyNumbersVisitor::created_faces
  \* history of the engine run
  reported,        \* faces handed to after_subface_created so far
  sinceBegin,      \* faces created since the most recent begin-split
  lastRead,        \* handles the latest after_subface_creations read
  lastSinceBegin,  \* sinceBegin when it read them
  pendingAtBegin,  \* handles still recorded when the latest begin-split came
  lastEvent,       \* the callback that returned last
  lastVertex,      \* the vertex of the latest new_vertex_added
  \* ---- ColorMap ------------------------------------------------------------
  cpc,             \* position of ColorMap::ColorMap()
  result_set,      \* local result_set of enumerateColorSchemes, by index
  colorSchemeSet,  \* ColorMap::colorSchemeSet, by index
  filesSeen,       \* directory entries visited in the current path
  \* history of the enumeration
  lastFile,        \* the directory entry visited last
  lastScheme,      \* the RenderColorScheme built from it, if one was built
  lastInserted     \* whether that scheme was put into result_set

drvVars == <<featRemesh, featExact, pc, op, remesh, exactCallback, observer,
             forceExact, entry, result, ret, regions, remeshFailed,
             outRemeshed, engineCalls, remeshCalls, readsRemesh, readsExact,
             changedAfterRead>>

visVars == <<strict, epc, faceVerts, pointA, pointB, newVerts, split_face,
             created_faces, reported, sinceBegin, lastRead, lastSinceBegin,
             pendingAtBegin, lastEvent, lastVertex>>

colVars == <<cpc, result_set, colorSchemeSet, filesSeen, lastFile, lastScheme,
             lastInserted>>

vars == <<drvVars, visVars, colVars>>

(***************************************************************************)
(* Bounds                                                                  *)
(***************************************************************************)
MaxRegions == 2
MaxNewVerts == 1
MaxCreated == 2
MaxFiles == 1

(***************************************************************************)
(* Operation Driver                                                        *)
(***************************************************************************)
Ops == {"union", "intersection", "difference"}

NoValue == "none"

\* The PMP function each driver names (lines 61/65/69, 80/84/88, 99/103/107).
EntryPoint(o) ==
  CASE o = "union"        -> "corefine_and_compute_union"
    [] o = "intersection" -> "corefine_and_compute_intersection"
    [] o = "difference"   -> "corefine_and_compute_difference"

\* if (exactCallback && !remesh) ... else if (remesh) ... else ...
SelectObserver_ExactWins(r, e) ==
  IF e THEN "ExactLazyNumbersVisitor"
  ELSE IF r THEN "CorefinementVisitor"
  ELSE NoValue

SelectObserver(r, e) ==
  IF e /\ ~r THEN "ExactLazyNumbersVisitor"
  ELSE IF r THEN "CorefinementVisitor"
  ELSE NoValue

\* The value the branch conditions test: the local read at line 57.
BranchRemesh_Reread == featRemesh

BranchRemesh == remesh

\* The value the branch conditions and the visitor constructor use: the local
\* read at line 58.
BranchExact == exactCallback

\* Where control goes when the engine call returns b: with a
\* CorefinementVisitor the next statement is the remesh pass (line 66),
\* otherwise the engine's value is returned at once (lines 61, 69).
AfterEngine_Retry(obs, b) ==
  IF ~b THEN "branch"
  ELSE IF obs = "CorefinementVisitor" THEN "remeshPass" ELSE "done"

AfterEngine(obs, b) ==
  IF obs = "CorefinementVisitor" THEN "remeshPass" ELSE "done"

\* Line 66: visitor.remeshSplitFaces(out) stands unguarded after the engine
\* call.
RunsRemeshPass_OnSuccessOnly(b) == b

RunsRemeshPass(b) == TRUE

\* Line 67: return result.  remeshSplitFaces' outcome is not looked at.
DriverReturn_FailOnRemesh(b, failed) == b /\ ~failed

DriverReturn(b, failed) == b

DriverInit ==
  /\ featRemesh \in BOOLEAN
  /\ featExact \in BOOLEAN
  /\ pc = "idle"
  /\ op = NoValue
  /\ remesh = FALSE
  /\ exactCallback = FALSE
  /\ observer = NoValue
  /\ forceExact = FALSE
  /\ entry = NoValue
  /\ result = NoValue
  /\ ret = NoValue
  /\ regions = 0
  /\ remeshFailed = FALSE
  /\ outRemeshed = FALSE
  /\ engineCalls = 0
  /\ remeshCalls = 0
  /\ readsRemesh = 0
  /\ readsExact = 0
  /\ changedAfterRead = FALSE

\* A concurrent actor enables or disables a feature.
SetFeature ==
  /\ UNCHANGED <<visVars, colVars>>
  /\ \E b \in BOOLEAN :
       \/ featRemesh' = b /\ featRemesh # b /\ UNCHANGED featExact
       \/ featExact' = b /\ featExact # b /\ UNCHANGED featRemesh
  /\ changedAfterRead' =
       (changedAfterRead \/ pc \notin {"idle", "readRemesh", "readExact"})
  /\ UNCHANGED <<pc, op, remesh, exactCallback, observer, forceExact, entry,
                 result, ret, regions, remeshFailed, outRemeshed, engineCalls,
                 remeshCalls, readsRemesh, readsExact>>

\* A caller enters one of the three drivers.
CallDriver ==
  /\ UNCHANGED <<visVars, colVars>>
  /\ pc \in {"idle", "done", "threw"}
  /\ \E o \in Ops : op' = o
  /\ pc' = "readRemesh"
  /\ remesh' = FALSE
  /\ exactCallback' = FALSE
  /\ observer' = NoValue
  /\ forceExact' = FALSE
  /\ entry' = NoValue
  /\ result' = NoValue
  /\ ret' = NoValue
  /\ regions' = 0
  /\ remeshFailed' = FALSE
  /\ outRemeshed' = FALSE
  /\ engineCalls' = 0
  /\ remeshCalls' = 0
  /\ readsRemesh' = 0
  /\ readsExact' = 0
  /\ changedAfterRead' = FALSE
  /\ UNCHANGED <<featRemesh, featExact>>

\* auto remesh = Feature::ExperimentalFastCsgRemesh.is_enabled();
ReadRemesh ==
  /\ UNCHANGED <<visVars, colVars>>
  /\ pc = "readRemesh"
  /\ remesh' = featRemesh
  /\ readsRemesh' = readsRemesh + 1
  /\ pc' = "readExact"
  /\ UNCHANGED <<featRemesh, featExact, op, exactCallback, observer,
                 forceExact, entry, result, ret, regions, remeshFailed,
                 outRemeshed, engineCalls, remeshCalls, readsExact,
                 changedAfterRead>>

\* auto exactCallback = Feature::ExperimentalFastCsgExactCorefinementCallback.is_enabled();
ReadExact ==
  /\ UNCHANGED <<visVars, colVars>>
  /\ pc = "readExact"
  /\ exactCallback' = featExact
  /\ readsExact' = readsExact + 1
  /\ pc' = "branch"
  /\ UNCHANGED <<featRemesh, featExact, op, remesh, observer, forceExact,
                 entry, result, ret, regions, remeshFailed, outRemeshed,
                 engineCalls, remeshCalls, readsRemesh, changedAfterRead>>

\* The if / else if / else: build the visitor, if any, and call the engine.
CallEngine ==
  /\ UNCHANGED <<visVars, colVars>>
  /\ pc = "branch"
  /\ observer' = SelectObserver(BranchRemesh, BranchExact)
  /\ forceExact' = (observer' = "CorefinementVisitor" /\ BranchExact)
  /\ entry' = EntryPoint(op)
  /\ engineCalls' = engineCalls + 1
  /\ regions' = 0
  /\ pc' = "engine"
  /\ UNCHANGED <<featRemesh, featExact, op, remesh, exactCallback, result,
                 ret, remeshFailed, outRemeshed, remeshCalls, readsRemesh,
                 readsExact, changedAfterRead>>

\* The engine finishes the split of one face; a CorefinementVisitor records
\* the region.
EngineSplit ==
  /\ UNCHANGED <<visVars, colVars>>
  /\ pc = "engine"
  /\ observer = "CorefinementVisitor"
  /\ regions < MaxRegions
  /\ regions' = regions + 1
  /\ UNCHANGED <<featRemesh, featExact, pc, op, remesh, exactCallback,
                 observer, forceExact, entry, result, ret, remeshFailed,
                 outRemeshed, engineCalls, remeshCalls, readsRemesh,
                 readsExact, changedAfterRead>>

\* The engine call returns true or false.
EngineReturn ==
  /\ UNCHANGED <<visVars, colVars>>
  /\ pc = "engine"
  /\ \E b \in BOOLEAN :
       /\ result' = b
       /\ pc' = AfterEngine(observer, b)
       /\ ret' = IF pc' = "done" THEN b ELSE ret
  /\ UNCHANGED <<featRemesh, featExact, op, remesh, exactCallback, observer,
                 forceExact, entry, regions, remeshFailed, outRemeshed,
                 engineCalls, remeshCalls, readsRemesh, readsExact,
                 changedAfterRead>>

\* The engine call ends with an exception, which leaves the driver.
EngineThrow ==
  /\ UNCHANGED <<visVars, colVars>>
  /\ pc = "engine"
  /\ pc' = "threw"
  /\ UNCHANGED <<featRemesh, featExact, op, remesh, exactCallback, observer,
                 forceExact, entry, result, ret, regions, remeshFailed,
                 outRemeshed, engineCalls, remeshCalls, readsRemesh,
                 readsExact, changedAfterRead>>

\* What remeshSplitFaces(out) does to the driver's state: it works on `out`,
\* and may fail for a recorded region.
RemeshOutcome(failed) ==
  /\ remeshCalls' = remeshCalls + 1
  /\ outRemeshed' = TRUE
  /\ remeshFailed' = failed

\* visitor.remeshSplitFaces(out); return result;
RemeshAndReturn ==
  /\ UNCHANGED <<visVars, colVars>>
  /\ pc = "remeshPass"
  /\ IF RunsRemeshPass(result)
       THEN \E failed \in BOOLEAN :
              /\ failed => regions > 0
              /\ RemeshOutcome(failed)
       ELSE UNCHANGED <<remeshCalls, outRemeshed, remeshFailed>>
  /\ ret' = DriverReturn(result, remeshFailed')
  /\ pc' = "done"
  /\ UNCHANGED <<featRemesh, featExact, op, remesh, exactCallback, observer,
                 forceExact, entry, result, regions, engineCalls, readsRemesh,
                 readsExact, changedAfterRead>>

DriverNext ==
  \/ SetFeature
  \/ CallDriver
  \/ ReadRemesh
  \/ ReadExact
  \/ CallEngine
  \/ EngineSplit
  \/ EngineReturn
  \/ EngineThrow
  \/ RemeshAndReturn

(***************************************************************************)
(* ExactLazyNumbersVisitor                                                 *)
(***************************************************************************)
\* The mesh the engine starts from: one triangle.
OrigVerts == {1, 2, 3}
OrigFaces == {1}
AllVerts == 1..(Cardinality(OrigVerts) + MaxNewVerts)
AllFaces == 1..(Cardinality(OrigFaces) + MaxCreated)

Range(s) == {s[i] : i \in 1..Len(s)}

\* A default-constructed face_descriptor.
NoFace == 0

\* A lazy-exact coordinate either still carries its expression ("lazy") or
\* holds its exact value ("exact").
NoPoint == [x |-> NoValue, y |-> NoValue, z |-> NoValue]
LazyPoint == [x |-> "lazy", y |-> "lazy", z |-> "lazy"]
\* The states a point can be in when the engine hands it over.
NewPointStates == {LazyPoint, [x |-> "exact", y |-> "lazy", z |-> "lazy"]}

IsExact(p) == p.x = "exact" /\ p.y = "exact" /\ p.z = "exact"

\* The three vertices a face can have: ascending triples of vertices.
Triples(vs) ==
  {t \in {<<a, b, c>> : a \in vs, b \in vs, c \in vs} :
     t[1] < t[2] /\ t[2] < t[3]}

\* The corners the engine's subfaces are drawn with: a subface of a split
\* triangle has an introduced vertex among its corners, and of the triangle's
\* edges the drawn ones keep 1-2 or 2-3.
SubfaceTriples(vs, new) ==
  {t \in Triples(vs) : Range(t) \cap new # {} /\ ~({1, 3} \subseteq Range(t))}

\* CGAL::exact(c): evaluates the expression of c and keeps the exact value.
Exact(c) == "exact"

\* CGAL::exact(pt.x()); CGAL::exact(pt.y()); CGAL::exact(pt.z());
ExactPoint(p) == [x |-> Exact(p.x), y |-> Exact(p.y), z |-> Exact(p.z)]

\* The inner loop of after_subface_creations: every vertex around face fi.
RECURSIVE ExactVertices(_, _)
ExactVertices(point, vs) ==
  IF vs = <<>> THEN point
  ELSE ExactVertices([point EXCEPT ![Head(vs)] = ExactPoint(@)], Tail(vs))

\* The outer loop of after_subface_creations: every face of created_faces.
RECURSIVE ExactFaces(_, _, _)
ExactFaces_FirstOnly(point, mesh, faces) ==
  IF faces = <<>> THEN point ELSE ExactVertices(point, mesh[Head(faces)])

ExactFaces(point, mesh, faces) ==
  IF faces = <<>> THEN point
  ELSE ExactFaces(ExactVertices(point, mesh[Head(faces)]), mesh, Tail(faces))

\* before_subface_creations: split_face = f_split; created_faces.clear();
BeforeClears_Keeps(faces) == faces

BeforeClears(faces) == <<>>

\* after_subface_created: created_faces.push_back(fi);
PushBack_Drops(faces, fi) == faces

PushBack(faces, fi) == Append(faces, fi)

VisitorInit ==
  /\ strict \in BOOLEAN
  /\ epc = "run"
  /\ faceVerts = [f \in AllFaces |-> IF f = 1 THEN <<1, 2, 3>> ELSE <<>>]
  /\ pointA = [v \in AllVerts |->
                 IF v \in OrigVerts THEN LazyPoint ELSE NoPoint]
  /\ pointB = pointA
  /\ newVerts = {}
  /\ split_face = NoFace
  /\ created_faces = <<>>
  /\ reported = {}
  /\ sinceBegin = <<>>
  /\ lastRead = <<>>
  /\ lastSinceBegin = <<>>
  /\ pendingAtBegin = <<>>
  /\ lastEvent = NoValue
  /\ lastVertex = 0

VisitorIdle ==
  /\ strict = TRUE
  /\ epc = "returned"
  /\ faceVerts = [f \in AllFaces |-> <<>>]
  /\ pointA = [v \in AllVerts |-> NoPoint]
  /\ pointB = pointA
  /\ newVerts = {}
  /\ split_face = NoFace
  /\ created_faces = <<>>
  /\ reported = {}
  /\ sinceBegin = <<>>
  /\ lastRead = <<>>
  /\ lastSinceBegin = <<>>
  /\ pendingAtBegin = <<>>
  /\ lastEvent = NoValue
  /\ lastVertex = 0

DriverIdle ==
  /\ DriverInit
  /\ featRemesh = FALSE
  /\ featExact = TRUE

ExistingVerts == {v \in AllVerts : pointB[v] # NoPoint}
ExistingFaces == {f \in AllFaces : faceVerts[f] # <<>>}

\* The engine adds an intersection point to the mesh, which it does before it
\* triangulates the first face.  The build with the single-callback shape is
\* told: new_vertex_added(i_id, v, tm).
NewVertexAdded ==
  /\ UNCHANGED <<drvVars, colVars>>
  /\ epc = "run"
  /\ lastEvent \in {NoValue, "new_vertex_added"}
  /\ \E v \in AllVerts \ ExistingVerts, p \in NewPointStates :
       /\ v = Cardinality(OrigVerts) + Cardinality(newVerts) + 1
       /\ pointB' = [pointB EXCEPT ![v] = p]
       /\ pointA' = [pointA EXCEPT ![v] = ExactPoint(p)]
       /\ newVerts' = newVerts \cup {v}
       /\ lastVertex' = v
  /\ lastEvent' = "new_vertex_added"
  /\ UNCHANGED <<strict, epc, faceVerts, split_face, created_faces, reported,
                 sinceBegin, lastRead, lastSinceBegin, pendingAtBegin>>

\* The engine starts to triangulate face f_split.  The build with the
\* three-phase shape is told: before_subface_creations(f_split, tm).
BeforeSubfaceCreations ==
  /\ UNCHANGED <<drvVars, colVars>>
  /\ epc # "returned"
  /\ strict => epc = "run"
  /\ \E f_split \in ExistingFaces :
       /\ split_face' = f_split
       /\ created_faces' = BeforeClears(created_faces)
  /\ sinceBegin' = <<>>
  /\ pendingAtBegin' = created_faces
  /\ epc' = "split"
  /\ lastEvent' = "before_subface_creations"
  /\ UNCHANGED <<strict, faceVerts, pointA, pointB, newVerts, reported,
                 lastRead, lastSinceBegin, lastVertex>>

\* The engine adds a subface.  The build with the three-phase shape is told:
\* after_subface_created(fi, tm).
AfterSubfaceCreated ==
  /\ UNCHANGED <<drvVars, colVars>>
  /\ epc # "returned"
  /\ strict => epc = "split"
  /\ \E fi \in AllFaces \ ExistingFaces,
        vs \in SubfaceTriples(ExistingVerts, newVerts) :
       /\ fi = Cardinality(OrigFaces) + Cardinality(reported) + 1
       /\ faceVerts' = [faceVerts EXCEPT ![fi] = vs]
       /\ created_faces' = PushBack(created_faces, fi)
       /\ reported' = reported \cup {fi}
       /\ sinceBegin' = Append(sinceBegin, fi)
  /\ lastEvent' = "after_subface_created"
  /\ UNCHANGED <<strict, epc, pointA, pointB, newVerts, split_face, lastRead,
                 lastSinceBegin, pendingAtBegin, lastVertex>>

\* The engine is done with the face.  The build with the three-phase shape
\* is told: after_subface_creations(mesh).
AfterSubfaceCreations ==
  /\ UNCHANGED <<drvVars, colVars>>
  /\ epc # "returned"
  /\ strict => epc = "split"
  /\ pointB' = ExactFaces(pointB, faceVerts, created_faces)
  /\ lastRead' = created_faces
  /\ lastSinceBegin' = sinceBegin
  /\ created_faces' = <<>>
  /\ epc' = "run"
  /\ lastEvent' = "after_subface_creations"
  /\ UNCHANGED <<strict, faceVerts, pointA, newVerts, split_face, reported,
                 sinceBegin, pendingAtBegin, lastVertex>>

\* Every vertex the engine introduced is a corner of a subface it told of.
Triangulated ==
  newVerts \subseteq UNION {Range(faceVerts[f]) : f \in reported}

\* The engine call returns.
RunReturns ==
  /\ UNCHANGED <<drvVars, colVars>>
  /\ epc # "returned"
  /\ strict => (epc = "run" /\ Triangulated)
  /\ epc' = "returned"
  /\ UNCHANGED <<strict, faceVerts, pointA, pointB, newVerts, split_face,
                 created_faces, reported, sinceBegin, lastRead,
                 lastSinceBegin, pendingAtBegin, lastEvent, lastVertex>>

VisitorNext ==
  \/ NewVertexAdded
  \/ BeforeSubfaceCreations
  \/ AfterSubfaceCreated
  \/ AfterSubfaceCreations
  \/ RunReturns

(***************************************************************************)
(* RenderColorScheme and ColorMap                                          *)
(***************************************************************************)
DEFAULT_COLOR_SCHEME_NAME == "Cornfield"

DefaultIndex == 1000

Color4f(r, g, b) == <<r, g, b>>

\* The colours of the built-in scheme.
DefaultColors ==
  [BACKGROUND_COLOR |-> Color4f(255, 255, 229),
   BACKGROUND_STOP_COLOR |-> Color4f(255, 255, 229),
   AXES_COLOR |-> Color4f(0, 0, 0),
   OPENCSG_FACE_FRONT_COLOR |-> Color4f(249, 215, 44),
   OPENCSG_FACE_BACK_COLOR |-> Color4f(157, 203, 81),
   CGAL_FACE_FRONT_COLOR |-> Color4f(249, 215, 44),
   CGAL_FACE_2D_COLOR |-> Color4f(0, 191, 153),
   CGAL_FACE_BACK_COLOR |-> Color4f(157, 203, 81),
   CGAL_EDGE_FRONT_COLOR |-> Color4f(255, 236, 94),
   CGAL_EDGE_BACK_COLOR |-> Color4f(171, 216, 86),
   CGAL_EDGE_2D_COLOR |-> Color4f(255, 0, 0),
   CROSSHAIR_COLOR |-> Color4f(128, 0, 0)]

NoError == <<>>

\* RenderColorScheme::RenderColorScheme()
DefaultScheme ==
  [name |-> DEFAULT_COLOR_SCHEME_NAME, index |-> DefaultIndex,
   show_in_gui |-> TRUE, path |-> <<>>, error |-> NoError,
   color_scheme |-> DefaultColors]

\* The addColor calls of the constructor before the inner try, in order:
\* <<RenderColor, key of the file>>.
RequiredColors ==
  <<<<"BACKGROUND_COLOR", "background">>,
    <<"AXES_COLOR", "axes-color">>,
    <<"OPENCSG_FACE_FRONT_COLOR", "opencsg-face-front">>,
    <<"OPENCSG_FACE_BACK_COLOR", "opencsg-face-back">>,
    <<"CGAL_FACE_FRONT_COLOR", "cgal-face-front">>,
    <<"CGAL_FACE_2D_COLOR", "cgal-face-2d">>,
    <<"CGAL_FACE_BACK_COLOR", "cgal-face-back">>,
    <<"CGAL_EDGE_FRONT_COLOR", "cgal-edge-front">>,
    <<"CGAL_EDGE_BACK_COLOR", "cgal-edge-back">>,
    <<"CGAL_EDGE_2D_COLOR", "cgal-edge-2d">>,
    <<"CROSSHAIR_COLOR", "crosshair">>>>

RequiredKeys == {RequiredColors[i][2] : i \in 1..Len(RequiredColors)}
ColorKeys == RequiredKeys \cup {"background-stop"}

\* The value of one hexadecimal digit, -1 for any other character.
HexVal(c) ==
  CASE c = "0" -> 0 [] c = "1" -> 1 [] c = "2" -> 2 [] c = "3" -> 3
    [] c = "4" -> 4 [] c = "5" -> 5 [] c = "6" -> 6 [] c = "7" -> 7
    [] c = "8" -> 8 [] c = "9" -> 9 [] c = "a" -> 10 [] c = "b" -> 11
    [] c = "c" -> 12 [] c = "d" -> 13 [] c = "e" -> 14 [] c = "f" -> 15
    [] OTHER -> -1

\* strtol(text, &endptr, 16) on text without sign, blanks or 0x: the number
\* the leading hexadecimal digits spell, 0 when there are none.
RECURSIVE StrToL16(_, _)
StrToL16(cs, acc) ==
  IF cs = <<>> \/ HexVal(Head(cs)) < 0 THEN acc
  ELSE StrToL16(Tail(cs), acc * 16 + HexVal(Head(cs)))

\* if ((color.length() == 7) && (color.at(0) == '#'))
ColorTextOk(color) == Len(color) = 7 /\ color[1] = "#"

\* std::map::insert: an entry that is there stays.
MapInsert(m, k, v) == IF k \in DOMAIN m THEN m ELSE m @@ (k :> v)

\* RenderColorScheme::addColor(colorKey, key).  colors is the "colors" child
\* of the property tree, <<>> when the tree has none.  Yields the colour map
\* and, when the call throws, the exception.
AddColor(cs, colors, colorKey, key) ==
  IF colors = <<>> THEN [cs |-> cs, thrown |-> <<"No such node", "colors">>]
  ELSE IF colors[1][key] = <<>>
    THEN [cs |-> cs, thrown |-> <<"No such node", key>>]
  ELSE LET color == colors[1][key][1] IN
    IF ColorTextOk(color)
      THEN LET val == StrToL16(Tail(color), 0)
               r == (val \div 65536) % 256
               g == (val \div 256) % 256
               b == val % 256
           IN [cs |-> MapInsert(cs, colorKey, Color4f(r, g, b)),
               thrown |-> NoError]
      ELSE [cs |-> cs,
            thrown |-> <<"invalid color value for key", key, color>>]

\* The addColor calls of lines 49-59: they stop at the first that throws.
RECURSIVE AddColors(_, _, _)
AddColors(cs, colors, todo) ==
  IF todo = <<>> THEN [cs |-> cs, thrown |-> NoError]
  ELSE LET one == AddColor(cs, colors, Head(todo)[1], Head(todo)[2]) IN
    IF one.thrown # NoError THEN one
    ELSE AddColors(one.cs, colors, Tail(todo))

\* The inner try of lines 60-64: background-stop, or else background again.
AddStopColor(cs, colors) ==
  LET first == AddColor(cs, colors, "BACKGROUND_STOP_COLOR", "background-stop")
  IN IF first.thrown = NoError THEN first
     ELSE AddColor(cs, colors, "BACKGROUND_STOP_COLOR", "background")

\* The outer catch of lines 65-71.
Caught_KeepsName(path, name, cs, e) ==
  [name |-> name, index |-> 0, show_in_gui |-> FALSE, path |-> path,
   error |-> e, color_scheme |-> cs]

Caught(path, name, cs, e) ==
  [name |-> "", index |-> 0, show_in_gui |-> FALSE, path |-> path,
   error |-> e, color_scheme |-> cs]

EmptyMap == [k \in {} |-> <<>>]

\* RenderColorScheme::RenderColorScheme(const fs::path&) on file f.
RenderColorScheme(path, f) ==
  IF ~f.json THEN Caught(path, "", EmptyMap, <<"read_json">>)
  ELSE IF f.name = <<>>
    THEN Caught(path, "", EmptyMap, <<"No such node", "name">>)
  ELSE IF f.index = <<>>
    THEN Caught(path, f.name[1], EmptyMap, <<"No such node", "index">>)
  ELSE IF f.show = <<>>
    THEN Caught(path, f.name[1], EmptyMap, <<"No such node", "show-in-gui">>)
  ELSE LET req == AddColors(EmptyMap, f.colors, RequiredColors) IN
    IF req.thrown # NoError THEN Caught(path, f.name[1], req.cs, req.thrown)
    ELSE LET stop == AddStopColor(req.cs, f.colors) IN
      IF stop.thrown # NoError
        THEN Caught(path, f.name[1], stop.cs, stop.thrown)
        ELSE [name |-> f.name[1], index |-> f.index[1],
              show_in_gui |-> f.show[1], path |-> path, error |-> NoError,
              color_scheme |-> stop.cs]

\* RenderColorScheme::valid()
Valid(scheme) == scheme.name # ""

\* ColorMap::findColorScheme(name): the place in colorSchemeSet of the first
\* scheme of that name, 0 for nullptr.
FindColorScheme(set, name) ==
  LET hits == {i \in 1..Len(set) : set[i].name = name}
  IN IF hits = {} THEN 0 ELSE CHOOSE i \in hits : \A j \in hits : i <= j

\* The set the name check of line 229 searches: findColorScheme is a member
\* and reads this->colorSchemeSet.
SearchedSet == colorSchemeSet

\* std::multimap::insert: after the entries whose key is not greater.
MultimapInsert(set, scheme) ==
  LET n == Cardinality({i \in 1..Len(set) : set[i].index <= scheme.index})
  IN SubSeq(set, 1, n) \o <<scheme>> \o SubSeq(set, n + 1, Len(set))

\* ---- the files a directory can hold ---------------------------------------
GoodText == <<"#", "0", "0", "b", "f", "9", "9">>
StopText == <<"#", "8", "0", "0", "0", "0", "0">>
BadTexts ==
  {<<"#", "f", "f">>,
   <<"f", "f", "f", "f", "e", "5", "0">>,
   <<"#", "f", "f", "f", "f", "e", "5", "0">>}
\* Seven characters after all, though not all of them digits.
OddText == <<"#", "1", "2", "z", "z", "z", "z">>

GoodColorTexts ==
  [k \in ColorKeys |-> IF k = "background-stop" THEN <<StopText>>
                       ELSE <<GoodText>>]

\* The "colors" children the files are drawn with: a good one, none, and a
\* good one with one key taken out or given another text.
StopChildren ==
  {<<[GoodColorTexts EXCEPT !["background-stop"] = <<>>]>>}
  \cup {<<[GoodColorTexts EXCEPT !["background-stop"] = <<t>>]>> :
          t \in BadTexts}

BrokenChildren ==
  {<<>>}
  \cup {<<[GoodColorTexts EXCEPT ![k] = <<>>]>> : k \in RequiredKeys}
  \cup {<<[GoodColorTexts EXCEPT ![k] = <<t>>]>> :
          k \in {"background", "crosshair"}, t \in BadTexts}
  \cup {<<[GoodColorTexts EXCEPT !["crosshair"] = <<t>>,
                                 !["background-stop"] = <<>>]>> :
          t \in BadTexts}

GoodFile ==
  [regular |-> TRUE, extension |-> ".json", json |-> TRUE,
   name |-> <<"Sunset">>, index |-> <<1>>, show |-> <<TRUE>>,
   colors |-> <<GoodColorTexts>>]

Files ==
  {[GoodFile EXCEPT !.name = <<n>>, !.index = <<i>>] :
     n \in {"Sunset", DEFAULT_COLOR_SCHEME_NAME}, i \in {1, DefaultIndex}}
  \cup {[GoodFile EXCEPT !.colors = c, !.show = <<FALSE>>] :
          c \in StopChildren}
  \cup {[GoodFile EXCEPT !.colors = c] : c \in BrokenChildren}
  \cup {[GoodFile EXCEPT !.colors =
           <<[GoodColorTexts EXCEPT !["crosshair"] = <<OddText>>]>>],
        [GoodFile EXCEPT !.regular = FALSE],
        [GoodFile EXCEPT !.extension = ".txt"],
        [GoodFile EXCEPT !.json = FALSE],
        [GoodFile EXCEPT !.name = <<>>],
        [GoodFile EXCEPT !.name = <<"">>],
        [GoodFile EXCEPT !.index = <<>>],
        [GoodFile EXCEPT !.show = <<>>]}

NoFile == <<>>
NoScheme == <<>>

ColorMapInit ==
  /\ cpc = "new"
  /\ result_set = <<>>
  /\ colorSchemeSet = <<>>
  /\ filesSeen = 0
  /\ lastFile = NoFile
  /\ lastScheme = NoScheme
  /\ lastInserted = FALSE

ColorMapIdle == ColorMapInit

\* ColorMap::ColorMap() enters enumerateColorSchemes, which puts the built-in
\* scheme into result_set (lines 243-247).
EnumerateColorSchemes ==
  /\ UNCHANGED <<drvVars, visVars>>
  /\ cpc = "new"
  /\ result_set' = MultimapInsert(<<>>, DefaultScheme)
  /\ cpc' = "resource"
  /\ UNCHANGED <<colorSchemeSet, filesSeen, lastFile, lastScheme,
                 lastInserted>>

\* One round of the loop of enumerateColorSchemesInPath (lines 218-237).
VisitFile ==
  /\ UNCHANGED <<drvVars, visVars>>
  /\ cpc \in {"resource", "user"}
  /\ filesSeen < MaxFiles
  /\ \E f \in Files :
       /\ lastFile' = f
       /\ IF ~f.regular \/ f.extension # ".json"
            THEN /\ lastScheme' = NoScheme
                 /\ lastInserted' = FALSE
                 /\ UNCHANGED result_set
            ELSE LET colorScheme == RenderColorScheme(<<cpc, filesSeen + 1>>, f)
                 IN /\ lastScheme' = colorScheme
                    /\ IF /\ Valid(colorScheme)
                          /\ FindColorScheme(SearchedSet, colorScheme.name) = 0
                         THEN /\ result_set' = MultimapInsert(result_set, colorScheme)
                              /\ lastInserted' = TRUE
                         ELSE /\ UNCHANGED result_set
                              /\ lastInserted' = FALSE
  /\ filesSeen' = filesSeen + 1
  /\ UNCHANGED <<cpc, colorSchemeSet>>

\* The loop over resourceBasePath ends (or the directory is not there) and
\* enumerateColorSchemesInPath is called for userConfigPath (line 249).
NextPath ==
  /\ UNCHANGED <<drvVars, visVars>>
  /\ cpc = "resource"
  /\ cpc' = "user"
  /\ filesSeen' = 0
  /\ UNCHANGED <<result_set, colorSchemeSet, lastFile, lastScheme,
                 lastInserted>>

\* enumerateColorSchemes returns and the constructor stores the set
\* (line 142).
StoreColorSchemeSet ==
  /\ UNCHANGED <<drvVars, visVars>>
  /\ cpc = "user"
  /\ colorSchemeSet' = result_set
  /\ cpc' = "constructed"
  /\ UNCHANGED <<result_set, filesSeen, lastFile, lastScheme, lastInserted>>

ColorMapNext ==
  \/ EnumerateColorSchemes
  \/ VisitFile
  \/ NextPath
  \/ StoreColorSchemeSet

Init == DriverInit /\ VisitorIdle /\ ColorMapIdle

Next == DriverNext

\* The driver, with the feature configuration changing under it.
Spec == Init /\ [][Next]_vars

InitVisitor == VisitorInit /\ DriverIdle /\ ColorMapIdle

\* One engine run, seen by both builds of ExactLazyNumbersVisitor.
SpecVisitor == InitVisitor /\ [][VisitorNext]_vars

InitColorMap == ColorMapInit /\ DriverIdle /\ VisitorIdle

\* The construction of the ColorMap.
SpecColorMap == InitColorMap /\ [][ColorMapNext]_vars

(***************************************************************************)
(* Properties of the driver, checked under Spec                            *)
(***************************************************************************)
EngineInvoked == pc \in {"engine", "remeshPass", "done", "threw"}

\* C1: once the engine has been called, the visitor attached to the call is
\* none when neither toggle was read set, ExactLazyNumbersVisitor when only
\* the exactness toggle was, CorefinementVisitor without exactness forcing
\* when only the remesh toggle was, and CorefinementVisitor with exactness
\* forcing when both were; and the PMP entry point is the one of the driver
\* that was called.
C1_ObserverFollowsPolicy ==
  EngineInvoked =>
    /\ (~remesh /\ ~exactCallback) => (observer = NoValue /\ ~forceExact)
    /\ (~remesh /\ exactCallback) =>
         (observer = "ExactLazyNumbersVisitor" /\ ~forceExact)
    /\ (remesh /\ ~exactCallback) =>
         (observer = "CorefinementVisitor" /\ ~forceExact)
    /\ (remesh /\ exactCallback) =>
         (observer = "CorefinementVisitor" /\ forceExact)
    /\ op = "union" => entry = "corefine_and_compute_union"
    /\ op = "intersection" => entry = "corefine_and_compute_intersection"
    /\ op = "difference" => entry = "corefine_and_compute_difference"

C1_Witness ==
  /\ pc = "done"
  /\ op = "difference"
  /\ remesh /\ exactCallback
  /\ observer = "CorefinementVisitor" /\ forceExact

\* C2 as claimed: when the engine returned false, remeshSplitFaces was not
\* invoked and `out` was not touched by the Remesh Coordinator.
C2_RemeshOnlyOnSuccess ==
  pc = "done" => (result \/ (remeshCalls = 0 /\ ~outRemeshed))

\* C2 as amended: with the remesh toggle read set, remeshSplitFaces(out) is
\* invoked exactly once after the engine call returns, whether the engine
\* returned true or false; with it read unset, never.
C2_RemeshAfterEveryReturn ==
  pc = "done" =>
    /\ remesh => (remeshCalls = 1 /\ outRemeshed)
    /\ ~remesh => (remeshCalls = 0 /\ ~outRemeshed)

C2_Witness ==
  pc = "done" /\ remesh /\ ~result /\ remeshCalls = 1 /\ outRemeshed

\* C3 as claimed: after a remesh pass that failed for a recorded region the
\* driver returns false.
C3_FailedRemeshReturnsFalse ==
  (pc = "done" /\ remeshFailed) => ~ret

\* C3 as amended: the remesh pass does not change what the driver returns;
\* after a remesh pass that failed for a recorded region the driver returns
\* what the engine returned, true included.
C3_RemeshOutcomeIgnored ==
  (pc = "done" /\ remeshFailed) => (ret <=> result)

C3_Witness ==
  pc = "done" /\ remeshFailed /\ regions > 0 /\ result /\ ret

\* C4: one driver call invokes the engine exactly once, whatever the policy
\* and the operation, also after a failure, and returns the boolean the
\* engine returned.
C4_EngineOnceResultForwarded ==
  /\ engineCalls <= 1
  /\ EngineInvoked => engineCalls = 1
  /\ pc = "done" => ret = result

C4_Witness ==
  pc = "done" /\ engineCalls = 1 /\ ~result /\ ~ret /\ observer = NoValue

\* C5: each toggle is read once per call, both before the engine is
\* invoked, and what the call does afterwards follows the values read, not
\* the configuration as it is by then: the visitor type, the exactness
\* forcing inside the CorefinementVisitor, and whether the remesh pass runs.
C5_PolicyReadOnce ==
  /\ readsRemesh <= 1 /\ readsExact <= 1
  /\ pc \in {"readRemesh", "readExact", "branch"} => engineCalls = 0
  /\ EngineInvoked =>
       /\ readsRemesh = 1 /\ readsExact = 1
       /\ (observer = "CorefinementVisitor") <=> remesh
       /\ (observer = "ExactLazyNumbersVisitor") <=> (exactCallback /\ ~remesh)
       /\ forceExact <=> (remesh /\ exactCallback)
  /\ remeshCalls > 0 => remesh
  /\ (pc = "done" /\ remesh) => remeshCalls > 0

C5_Witness ==
  /\ pc = "done"
  /\ changedAfterRead
  /\ remesh /\ ~featRemesh
  /\ ~exactCallback /\ featExact
  /\ observer = "CorefinementVisitor" /\ ~forceExact
  /\ remeshCalls = 1

(***************************************************************************)
(* Properties of ExactLazyNumbersVisitor, checked under SpecVisitor        *)
(***************************************************************************)
Corners(faces) == UNION {Range(faceVerts[f]) : f \in Range(faces)}

\* C6: when after_subface_creations has returned at the end of a well-formed
\* begin / created / end sequence, every vertex of every face created since
\* the begin has its three coordinates exact and created_faces is empty; when
\* new_vertex_added(v) has returned, the three coordinates of v are exact.
C6_ExactAfterEvent ==
  /\ (strict /\ lastEvent = "after_subface_creations") =>
       /\ created_faces = <<>>
       /\ \A v \in Corners(lastSinceBegin) :
            pointB[v].x = "exact" /\ pointB[v].y = "exact" /\ pointB[v].z = "exact"
  /\ lastEvent = "new_vertex_added" =>
       /\ pointA[lastVertex].x = "exact"
       /\ pointA[lastVertex].y = "exact"
       /\ pointA[lastVertex].z = "exact"

C6_Witness ==
  /\ strict
  /\ lastEvent = "after_subface_creations"
  /\ Len(lastSinceBegin) = 2
  /\ Corners(lastSinceBegin) \cap newVerts # {}
  /\ Corners(lastSinceBegin) \cap OrigVerts = OrigVerts

\* C7: when an engine run that keeps the protocol has returned, the
\* introduced vertices with exact coordinates are the same in the build with
\* new_vertex_added and in the build with the three callbacks: all of them.
C7_ShapesAgree ==
  (strict /\ epc = "returned") =>
    /\ {v \in newVerts : IsExact(pointA[v])} = {v \in newVerts : IsExact(pointB[v])}
    /\ {v \in newVerts : IsExact(pointB[v])} = newVerts

C7_Witness ==
  /\ strict
  /\ epc = "returned"
  /\ newVerts # {}
  /\ Cardinality(reported) = 2

\* C8: whatever the order of the begin, created and end events, the handles
\* after_subface_creations reads are of faces created since the most recent
\* begin-split; none was still recorded from before it.
C8_NoStaleHandleRead ==
  /\ Range(lastRead) \subseteq Range(lastSinceBegin)
  /\ Range(lastRead) \cap Range(pendingAtBegin) = {}

C8_Witness ==
  /\ ~strict
  /\ lastEvent = "after_subface_creations"
  /\ pendingAtBegin # <<>>
  /\ lastRead # <<>>

(***************************************************************************)
(* Properties of the ColorMap, checked under SpecColorMap                  *)
(***************************************************************************)
\* C9 as claimed: in the constructed ColorMap no two schemes have the same
\* name, and findColorScheme("Cornfield") finds the built-in scheme.
C9_UniqueNames ==
  cpc = "constructed" =>
    /\ \A i, j \in 1..Len(colorSchemeSet) :
         i # j => colorSchemeSet[i].name # colorSchemeSet[j].name
    /\ LET at == FindColorScheme(colorSchemeSet, DEFAULT_COLOR_SCHEME_NAME)
       IN at # 0 /\ colorSchemeSet[at].path = <<>>

\* '#' followed by 6 characters.
HashAndSix(text) == Len(text) = 7 /\ text[1] = "#"

KeyFails(f, k) ==
  f.colors = <<>> \/ f.colors[1][k] = <<>> \/ ~HashAndSix(f.colors[1][k][1])

\* The failures C10 names: the JSON, a required field, a required colour key.
FileFails(f) ==
  \/ ~f.json
  \/ f.name = <<>> \/ f.index = <<>> \/ f.show = <<>>
  \/ \E k \in RequiredKeys : KeyFails(f, k)

\* C10: a scheme built from a file that fails to load has an empty name,
\* index 0, show_in_gui false and an error, is not valid and is not in
\* result_set; a file that fails in background-stop alone loads without
\* error, with the background colour as its background-stop colour.
C10_FailedFileNotRegistered ==
  lastScheme # NoScheme =>
    /\ FileFails(lastFile) =>
         /\ lastScheme.name = "" /\ lastScheme.index = 0
         /\ ~lastScheme.show_in_gui
         /\ lastScheme.error # NoError
         /\ ~Valid(lastScheme)
         /\ ~lastInserted
         /\ \A i \in 1..Len(result_set) : result_set[i].path # lastScheme.path
    /\ (~FileFails(lastFile) /\ KeyFails(lastFile, "background-stop")) =>
         /\ lastScheme.error = NoError
         /\ lastScheme.name = lastFile.name[1]
         /\ lastScheme.color_scheme["BACKGROUND_STOP_COLOR"] =
              lastScheme.color_scheme["BACKGROUND_COLOR"]
         /\ Valid(lastScheme)

C10_Witness ==
  /\ cpc = "constructed"
  /\ lastScheme # NoScheme
  /\ lastFile.name = <<"Sunset">>
  /\ lastFile.colors # <<>>
  /\ lastFile.colors[1]["crosshair"] = <<<<"#", "f", "f">>>>
  /\ Len(colorSchemeSet) = 2

====
